---------------------------- MODULE Spec2Model ----------------------------
(* Model of mcp-camara: startup (load_openapi_spec, get_endpoints, the      *)
(* module-level registries of main.py), the tools of main.py with their     *)
(* HTTP suspension points, and the tool-name derivation of tools.py.        *)
(* Python strings are sequences of one-character strings, so that the       *)
(* regex scan, str.replace, str.split and the suffix rules are computed as  *)
(* the code computes them.                                                  *)
EXTENDS Integers, Sequences, FiniteSets, TLC

(***************************************************************************)
(* Bounds of the model.                                                    *)
(***************************************************************************)
\* deputies in a lookup answer: 0..MaxDeputies
MaxDeputies == 2
\* declared parameters per operation of an interface description
MaxParams == 1
\* segments of a path handed to get_tool_name
MaxSegs == 3
\* letters in front of the ending of a word handed to singularize
MaxStem == 1

(***************************************************************************)
(* Python string primitives.                                               *)
(***************************************************************************)
Lowers == <<"a","b","c","d","e","f","g","h","i","j","k","l","m",
            "n","o","p","q","r","s","t","u","v","w","x","y","z">>
Uppers == <<"A","B","C","D","E","F","G","H","I","J","K","L","M",
            "N","O","P","Q","R","S","T","U","V","W","X","Y","Z">>

IndexOf(seq, c) == IF \E k \in 1..Len(seq) : seq[k] = c
                   THEN CHOOSE k \in 1..Len(seq) : seq[k] = c
                   ELSE 0

\* str.upper() / str.lower(), one character
UpperChar(c) == IF IndexOf(Lowers, c) > 0 THEN Uppers[IndexOf(Lowers, c)] ELSE c
LowerChar(c) == IF IndexOf(Uppers, c) > 0 THEN Lowers[IndexOf(Uppers, c)] ELSE c

upper(s) == [k \in 1..Len(s) |-> UpperChar(s[k])]
lower(s) == [k \in 1..Len(s) |-> LowerChar(s[k])]

\* s[from:] with a 1-based start
Drop(s, n) == SubSeq(s, n + 1, Len(s))

StartsWithAt(s, k, old) ==
    /\ k + Len(old) - 1 <= Len(s)
    /\ SubSeq(s, k, k + Len(old) - 1) = old

endswith(s, suf) ==
    /\ Len(suf) <= Len(s)
    /\ SubSeq(s, Len(s) - Len(suf) + 1, Len(s)) = suf

\* str.replace(old, new) for a non-empty old: every non-overlapping
\* occurrence, scanning left to right
RECURSIVE replace(_, _, _)
replace(s, old, new) ==
    IF Len(s) = 0 THEN <<>>
    ELSE IF StartsWithAt(s, 1, old)
         THEN new \o replace(Drop(s, Len(old)), old, new)
         ELSE <<s[1]>> \o replace(Drop(s, 1), old, new)

\* str(int) for a non-negative int
Digits == <<"0","1","2","3","4","5","6","7","8","9">>
RECURSIVE IntStr(_)
IntStr(n) == IF n < 10 THEN <<Digits[n + 1]>>
             ELSE IntStr(n \div 10) \o <<Digits[(n % 10) + 1]>>

\* str.split("/") followed by the `if part` filter of the comprehension
RECURSIVE SplitParts(_, _)
SplitParts(s, cur) ==
    IF Len(s) = 0 THEN (IF cur = <<>> THEN <<>> ELSE <<cur>>)
    ELSE IF s[1] = "/"
         THEN (IF cur = <<>> THEN <<>> ELSE <<cur>>) \o SplitParts(Drop(s, 1), <<>>)
         ELSE SplitParts(Drop(s, 1), cur \o <<s[1]>>)

RECURSIVE JoinWith(_, _)
JoinWith(parts, sep) ==
    IF Len(parts) = 0 THEN <<>>
    ELSE IF Len(parts) = 1 THEN parts[1]
    ELSE parts[1] \o sep \o JoinWith(Tail(parts), sep)

\* re.findall(r"\{([^{}]+)\}", path): the names between a "{" and the next
\* "}" with no brace in between, non-overlapping, left to right
NoBrace(s, i, j) == \A k \in i..j : s[k] # "{" /\ s[k] # "}"

MatchEnd(s, i) ==
    IF /\ s[i] = "{"
       /\ \E j \in (i + 2)..Len(s) : s[j] = "}" /\ NoBrace(s, i + 1, j - 1)
    THEN CHOOSE j \in (i + 2)..Len(s) : s[j] = "}" /\ NoBrace(s, i + 1, j - 1)
    ELSE 0

RECURSIVE findall(_, _)
findall(s, i) ==
    IF i > Len(s) THEN <<>>
    ELSE IF MatchEnd(s, i) > 0
         THEN <<SubSeq(s, i + 1, MatchEnd(s, i) - 1)>> \o findall(s, MatchEnd(s, i) + 1)
         ELSE findall(s, i + 1)

(***************************************************************************)
(* utils.py: singularize.                                                  *)
(***************************************************************************)
\* unidecode on the accented letters of the alphabet used here; an accented
\* letter is written as its base letter followed by the accent mark
unidecode_char(c) ==
    CASE c = "o~" -> "o"
      [] c = "a~" -> "a"
      [] c = "c," -> "c"
      [] c = "e'" -> "e"
      [] OTHER -> c

RECURSIVE lstrip(_)
lstrip(s) == IF Len(s) > 0 /\ s[1] = " " THEN lstrip(Tail(s)) ELSE s
RECURSIVE rstrip(_)
rstrip(s) == IF Len(s) > 0 /\ s[Len(s)] = " "
             THEN rstrip(SubSeq(s, 1, Len(s) - 1)) ELSE s
strip(s) == rstrip(lstrip(s))

\* unidecode(original_text.strip()).lower()
normalize(s) == lower([k \in 1..Len(strip(s)) |-> unidecode_char(strip(s)[k])])

INVARIABLE ==
    { <<"p","a","r","a","b","e","n","s">>,
      <<"l","a","p","i","s">>,
      <<"v","i","r","u","s">>,
      <<"a","t","l","a","s">>,
      <<"p","i","r","e","s">>,
      <<"b","o","n","u","s">>,
      <<"c","a","i","s">>,
      <<"o","c","u","l","o","s">>,
      <<"o","n","i","b","u","s">> }

\* the character class [a-zA-z]: the letters and the characters that lie
\* between "Z" and "a" (of these the alphabet used here has "[", "]", "^", "_")
InClass(c) ==
    \/ IndexOf(Lowers, c) > 0
    \/ IndexOf(Uppers, c) > 0
    \/ c \in {"[", "]", "^", "_"}

\* re.match(r"^([a-zA-z]*)<suf>$", w)
MatchSuffix(w, suf) ==
    /\ endswith(w, suf)
    /\ \A k \in 1..(Len(w) - Len(suf)) : InClass(w[k])

\* re.sub of the same pattern: group 1 followed by the replacement text
SubSuffix(w, suf, rep) == SubSeq(w, 1, Len(w) - Len(suf)) \o rep

\* the ordered if/elif chain: each rule is the list of <<suffix, rewrite>>
\* alternatives of its pattern
SuffixRules ==
    << << << <<"n","s">>, <<"m">> >> >>,
       << << <<"z","e","s">>, <<"z">> >> >>,
       << << <<"s","e","s">>, <<"s">> >> >>,
       << << <<"o","e","s">>, <<"a","o">> >> >>,
       << << <<"a","o","s">>, <<"a","o">> >> >>,
       << << <<"a","e","s">>, <<"a","o">> >> >>,
       << << <<"l","e","s">>, <<"l">> >> >>,
       << << <<"a","i","s">>, <<"a","l">> >>,
          << <<"e","i","s">>, <<"e","l">> >>,
          << <<"o","i","s">>, <<"o","l">> >>,
          << <<"u","i","s">>, <<"u","l">> >> >>,
       << << <<"i","s">>, <<"i","l">> >> >>,
       << << <<"a","s">>, <<"a">> >>,
          << <<"i","s">>, <<"i">> >>,
          << <<"o","s">>, <<"o">> >>,
          << <<"u","s">>, <<"u">> >> >>,
       << << <<"t","o","r","e","s">>, <<"t","o","r">> >>,
          << <<"l","o","r","e","s">>, <<"l","o","r">> >>,
          << <<"d","o","r","e","s">>, <<"d","o","r">> >> >>,
       << << <<"v","o","r","e","s">>, <<"v","o","r","e">> >> >>,
       << << <<"t","e","s">>, <<"t","e">> >> >> >>

RuleMatches(w, r) == \E a \in 1..Len(SuffixRules[r]) : MatchSuffix(w, SuffixRules[r][a][1])

RuleRewrite(w, r) ==
    LET a == CHOOSE a \in 1..Len(SuffixRules[r]) : MatchSuffix(w, SuffixRules[r][a][1])
    IN SubSuffix(w, SuffixRules[r][a][1], SuffixRules[r][a][2])

\* variant: the last matching rule of the chain decides
RECURSIVE ApplyRules_last(_, _)
ApplyRules_last(w, r) ==
    IF r > Len(SuffixRules) THEN w
    ELSE IF \E q \in (r + 1)..Len(SuffixRules) : RuleMatches(w, q)
    THEN ApplyRules_last(w, r + 1)
    ELSE IF RuleMatches(w, r) THEN RuleRewrite(w, r)
    ELSE ApplyRules_last(w, r + 1)

RECURSIVE ApplyRules(_, _)
ApplyRules(w, r) ==
    IF r > Len(SuffixRules) THEN w
    ELSE IF RuleMatches(w, r) THEN RuleRewrite(w, r)
    ELSE ApplyRules(w, r + 1)

singularize(original_text) ==
    LET word_to_takeoff_plural == normalize(original_text)
    IN IF word_to_takeoff_plural \in INVARIABLE
       THEN word_to_takeoff_plural
       ELSE ApplyRules(word_to_takeoff_plural, 1)

(***************************************************************************)
(* Python list indexing with a 0-based, possibly negative index.           *)
(***************************************************************************)
PyInRange(seq, k) == -Len(seq) <= k /\ k < Len(seq)
PyAt(seq, k) == IF k >= 0 THEN seq[k + 1] ELSE seq[Len(seq) + k + 1]

\* text[1:-1]
Inner(s) == SubSeq(s, 2, Len(s) - 1)

(***************************************************************************)
(* tools.py: get_prefix, get_tool_name.                                    *)
(***************************************************************************)
GET == <<"G","E","T">>
POST == <<"P","O","S","T">>
PUT == <<"P","U","T">>
PATCH == <<"P","A","T","C","H">>
DELETE == <<"D","E","L","E","T","E">>
OPTIONS == <<"O","P","T","I","O","N","S">>

get_prefix(endpoint) ==
    IF endpoint.method = GET
    THEN (IF endswith(endpoint.path, <<"}">>)
          THEN <<"g","e","t">>
          ELSE <<"l","i","s","t">>)
    ELSE IF endpoint.method = POST THEN <<"c","r","e","a","t","e">>
    ELSE IF endpoint.method \in {PUT, PATCH} THEN <<"u","p","d","a","t","e">>
    ELSE IF endpoint.method = DELETE THEN <<"d","e","l","e","t","e">>
    ELSE <<>>

Raised(exc) == [raised |-> TRUE, exc |-> exc, name |-> <<>>]
Named(name) == [raised |-> FALSE, exc |-> "", name |-> name]
NoName == [raised |-> FALSE, exc |-> "none", name |-> <<>>]

\* index of the first part that ends with "}", 0-based; -1 when none
FirstBraced(path_parts) ==
    IF \E k \in 1..Len(path_parts) : endswith(path_parts[k], <<"}">>)
    THEN (CHOOSE k \in 1..Len(path_parts) :
             /\ endswith(path_parts[k], <<"}">>)
             /\ \A j \in 1..(k - 1) : ~endswith(path_parts[j], <<"}">>)) - 1
    ELSE -1

get_tool_name(endpoint) ==
    LET prefix == get_prefix(endpoint)
        path_parts == SplitParts(endpoint.path, <<>>)
        i == FirstBraced(path_parts)
    IN IF ~PyInRange(path_parts, -1) THEN Raised("IndexError")
       ELSE IF endswith(PyAt(path_parts, -1), <<"}">>)
       THEN (IF ~PyInRange(path_parts, -2) THEN Raised("IndexError")
             ELSE Named(prefix \o <<"_">> \o singularize(PyAt(path_parts, -2))
                        \o <<"_","b","y","_">> \o Inner(PyAt(path_parts, -1))))
       ELSE IF i >= 0
       THEN (IF ~PyInRange(path_parts, i + 1) \/ ~PyInRange(path_parts, i - 1)
             THEN Raised("IndexError")
             ELSE Named(prefix \o <<"_">> \o PyAt(path_parts, i + 1)
                        \o <<"_","b","y","_">> \o singularize(PyAt(path_parts, i - 1))))
       ELSE Named(prefix \o <<"_">> \o JoinWith(path_parts, <<"_">>))

(***************************************************************************)
(* models.py: Parameter, EndpointSummary, Endpoint, APIResponse.           *)
(***************************************************************************)
Parameter(param) == [name |-> param.name, required |-> param.required]

EndpointSummary(path, method, description) ==
    [path |-> path, method |-> method, description |-> description]

Endpoint(path, method, description, parameters) ==
    [path |-> path, method |-> method, description |-> description,
     parameters |-> parameters]

\* Optional fields: None, or a value
None == [isNone |-> TRUE, val |-> <<>>]
Some(v) == [isNone |-> FALSE, val |-> v]

\* variant: a validator that accepts every combination
check_passwords_match_any(results, error_details) == TRUE

\* the model validator: exactly one of results / error_details is not None
check_passwords_match(results, error_details) ==
    (results.isNone /\ ~error_details.isNone) \/ (~results.isNone /\ error_details.isNone)

NoEnvelope == [status |-> "", results |-> None, error_details |-> None]
Returned(env) == [kind |-> "envelope", env |-> env, exc |-> ""]
Faulted(exc) == [kind |-> "raised", env |-> NoEnvelope, exc |-> exc]
Pending == [kind |-> "none", env |-> NoEnvelope, exc |-> ""]

\* APIResponse(status=..., results=..., error_details=...): the envelope, or
\* the ValidationError of the Literal field or of the model validator
APIResponse(status, results, error_details) ==
    IF status \in {"success", "error"} /\ check_passwords_match(results, error_details)
    THEN Returned([status |-> status, results |-> results, error_details |-> error_details])
    ELSE Faulted("ValidationError")

(***************************************************************************)
(* parser.py: load_openapi_spec, get_endpoints.                            *)
(***************************************************************************)
\* what httpx.get(url) / raise_for_status() / response.json() can do
LoadFailures == {"network", "http_status", "unparsable"}

\* the value load_openapi_spec returns: the parsed document, or None when
\* the except branch logged the failure and fell off the end
NoDocument == [isNone |-> TRUE, hasPaths |-> FALSE, paths |-> <<>>]

load_openapi_spec(outcome) ==
    IF outcome.kind = "ok" THEN outcome.doc ELSE NoDocument

\* parameters kept by the `in` filter
KeptParams(raw) == SelectSeq(raw, LAMBDA p : p.loc \in {"query", "path"})

RECURSIVE OpEndpoints(_, _)
OpEndpoints(path, ops) ==
    IF Len(ops) = 0 THEN <<>>
    ELSE << Endpoint(path, upper(ops[1].method), ops[1].description,
                     [k \in 1..Len(KeptParams(ops[1].parameters)) |->
                         Parameter(KeptParams(ops[1].parameters)[k])]) >>
         \o OpEndpoints(path, Tail(ops))

RECURSIVE PathEndpoints(_)
PathEndpoints(paths) ==
    IF Len(paths) = 0 THEN <<>>
    ELSE OpEndpoints(paths[1].path, paths[1].ops) \o PathEndpoints(Tail(paths))

\* Parameter(**param) raises when a kept entry lacks name, required or schema
ParameterRaises(paths) ==
    \E i \in 1..Len(paths) : \E j \in 1..Len(paths[i].ops) :
        \E k \in 1..Len(KeptParams(paths[i].ops[j].parameters)) :
            ~KeptParams(paths[i].ops[j].parameters)[k].wellFormed

get_endpoints(openapi_spec) ==
    IF openapi_spec.isNone
    THEN [raised |-> TRUE, exc |-> "AttributeError", endpoints |-> <<>>]
    ELSE LET paths == IF openapi_spec.hasPaths THEN openapi_spec.paths ELSE <<>>
         IN IF ParameterRaises(paths)
            THEN [raised |-> TRUE, exc |-> "ValidationError", endpoints |-> <<>>]
            ELSE [raised |-> FALSE, exc |-> "", endpoints |-> PathEndpoints(paths)]

(***************************************************************************)
(* main.py: module-level registries.                                       *)
(***************************************************************************)
BASE_URL == <<"https://dadosabertos.camara.leg.br/api/v2">>

Summaries(eps) ==
    [k \in 1..Len(eps) |-> EndpointSummary(eps[k].path, eps[k].method, eps[k].description)]

MappingKey(method, path) == method \o <<":">> \o path

\* the dict comprehension: a later endpoint with the same key replaces an
\* earlier one
Mapping(eps) ==
    [key \in {MappingKey(eps[k].method, eps[k].path) : k \in 1..Len(eps)} |->
        eps[CHOOSE k \in 1..Len(eps) :
                /\ MappingKey(eps[k].method, eps[k].path) = key
                /\ \A j \in (k + 1)..Len(eps) :
                       MappingKey(eps[j].method, eps[j].path) # key]]

(***************************************************************************)
(* Python values passed as tool arguments and query parameters.            *)
(***************************************************************************)
PyNone == [t |-> "none", i |-> 0, s |-> <<>>]
PyInt(n) == [t |-> "int", i |-> n, s |-> <<>>]
PyStr(s) == [t |-> "str", i |-> 0, s |-> s]

\* bool(value)
Truthy(v) == (v.t = "int" /\ v.i # 0) \/ (v.t = "str" /\ v.s # <<>>)

\* str(value)
str(v) == IF v.t = "int" THEN IntStr(v.i)
          ELSE IF v.t = "str" THEN v.s
          ELSE <<"N","o","n","e">>

\* a dict without one key
DictDel(d, key) == [k \in (DOMAIN d) \ {key} |-> d[k]]
EmptyDict == [k \in {} |-> PyNone]
DictSet(d, key, v) == [k \in (DOMAIN d) \cup {key} |-> IF k = key THEN v ELSE d[k]]

(***************************************************************************)
(* main.py: call_endpoint, up to the request and after the response.       *)
(***************************************************************************)
ErrorDetails(status_code, message) ==
    Some([status_code |-> status_code, message |-> message])

\* variant: substitutes whenever the key is present, whatever its value
RECURSIVE SubstituteParams_present(_, _, _)
SubstituteParams_present(names, path, params) ==
    IF Len(names) = 0 THEN [path |-> path, params |-> params]
    ELSE LET path_param == names[1]
         IN IF path_param \in DOMAIN params
            THEN SubstituteParams_present(Tail(names),
                     replace(path, <<"{">> \o path_param \o <<"}">>, str(params[path_param])),
                     DictDel(params, path_param))
            ELSE SubstituteParams_present(Tail(names), path, params)

\* the loop over re.findall(...): substitute a truthy value and delete it
RECURSIVE SubstituteParams(_, _, _)
SubstituteParams(names, path, params) ==
    IF Len(names) = 0 THEN [path |-> path, params |-> params]
    ELSE LET path_param == names[1]
         IN IF path_param \in DOMAIN params /\ Truthy(params[path_param])
            THEN SubstituteParams(Tail(names),
                     replace(path, <<"{">> \o path_param \o <<"}">>, str(params[path_param])),
                     DictDel(params, path_param))
            ELSE SubstituteParams(Tail(names), path, params)

NoRequest == [method |-> <<>>, url |-> <<>>, params |-> EmptyDict]

\* variant: compares the method as given, without upper-casing it
call_endpoint_begin_exact(path, method, params) ==
    IF method # GET
    THEN [ret |-> [kind |-> "envelope", exc |-> "",
                   env |-> [status |-> "error", results |-> None,
                            error_details |-> ErrorDetails(None, <<"Invalid method", method>>)]],
          request |-> NoRequest]
    ELSE [ret |-> [kind |-> "none", exc |-> "",
                   env |-> [status |-> "", results |-> None, error_details |-> None]],
          request |-> [method |-> upper(method),
                       url |-> BASE_URL \o SubstituteParams(findall(path, 1), path, params).path,
                       params |-> SubstituteParams(findall(path, 1), path, params).params]]

\* lines 108-132: either the invalid-method envelope, or the request issued
call_endpoint_begin(path, method, params) ==
    LET method_upper == upper(method)
    IN IF method_upper # GET
       THEN [ret |-> APIResponse("error", None,
                        ErrorDetails(None, <<"Invalid method", method>>)),
             request |-> NoRequest]
       ELSE LET sub == SubstituteParams(findall(path, 1), path, params)
            IN [ret |-> Pending,
                request |-> [method |-> method_upper,
                             url |-> BASE_URL \o sub.path,
                             params |-> sub.params]]

\* response.raise_for_status() raises for every status that is not 2xx
is_success(status_code) == 200 <= status_code /\ status_code <= 299
BAD_REQUEST == 400

GenericError(what) ==
    APIResponse("error", None, ErrorDetails(None, <<"Error calling tool call_endpoint", what>>))

\* lines 133-163: the envelope built from what the remote service did
call_endpoint_end(request, outcome) ==
    IF outcome.kind = "transport" THEN GenericError("transport")
    ELSE IF ~is_success(outcome.status_code)
    THEN (IF outcome.status_code = BAD_REQUEST
          THEN APIResponse("error", None,
                   ErrorDetails(Some("400 Bad Request"), <<"Client error", request.url>>))
          ELSE GenericError("status"))
    ELSE IF outcome.kind = "not_json" THEN GenericError("JSONDecodeError")
    ELSE LET r == APIResponse("success",
                      IF outcome.body.t = "null" THEN None ELSE Some(outcome.body), None)
         IN IF r.kind = "raised" THEN GenericError(r.exc) ELSE r

(***************************************************************************)
(* main.py: get_deputy_by_name, get_deputy_expenses, get_bills_by_author.  *)
(***************************************************************************)
K_nome == <<"n","o","m","e">>
K_ano == <<"a","n","o">>
K_mes == <<"m","e","s">>
K_autor == <<"a","u","t","o","r">>
K_idDeputadoAutor == <<"i","d","D","e","p","u","t","a","d","o","A","u","t","o","r">>
K_dataInicio == <<"d","a","t","a","I","n","i","c","i","o">>
K_dataFim == <<"d","a","t","a","F","i","m">>

get_deputy_by_name(name) ==
    call_endpoint_begin(<<"/","d","e","p","u","t","a","d","o","s">>, GET, (K_nome :> name))

\* lines 248-259: the expenses request for a known deputy id
expenses_call(deputy_id, year, month) ==
    LET p1 == IF Truthy(year) THEN DictSet(EmptyDict, K_ano, year) ELSE EmptyDict
        p2 == IF Truthy(month) THEN DictSet(p1, K_mes, month) ELSE p1
    IN call_endpoint_begin(<<"/","d","e","p","u","t","a","d","o","s","/">> \o str(deputy_id) \o <<"/","d","e","s","p","e","s","a","s">>, GET, p2)

\* lines 208-219: up to the first request
get_deputy_expenses_begin(name, id, year, month) ==
    IF id.t = "none"
    THEN (IF ~Truthy(name)
          THEN [ret |-> APIResponse("error", None,
                           ErrorDetails(None, <<"You must provide either a name or an id">>)),
                request |-> NoRequest, lookup |-> FALSE]
          ELSE [ret |-> get_deputy_by_name(name).ret,
                request |-> get_deputy_by_name(name).request, lookup |-> TRUE])
    ELSE [ret |-> expenses_call(id, year, month).ret,
          request |-> expenses_call(id, year, month).request, lookup |-> FALSE]

\* the suggestions of line 235, one <<nome, id>> per deputy
Suggestions(deputies) == [k \in 1..Len(deputies) |-> <<deputies[k].nome, deputies[k].id>>]

\* variant: a failed lookup is sent once more
get_deputy_expenses_resume_retry(deputies_response, name, year, month) ==
    IF deputies_response.kind = "envelope" /\ deputies_response.env.status = "success"
       /\ ~deputies_response.env.results.isNone
       /\ deputies_response.env.results.val.t = "obj"
       /\ deputies_response.env.results.val.hasDados
       /\ Len(deputies_response.env.results.val.dados) = 1
       /\ deputies_response.env.results.val.dados[1].hasId
    THEN expenses_call(PyInt(deputies_response.env.results.val.dados[1].id), year, month)
    ELSE IF deputies_response.kind = "envelope" /\ deputies_response.env.status = "error"
    THEN get_deputy_by_name(name)
    ELSE [ret |-> deputies_response, request |-> NoRequest]

\* lines 221-259: after the lookup answered with deputies_response
get_deputy_expenses_resume(deputies_response, name, year, month) ==
    IF deputies_response.kind = "raised"
    THEN [ret |-> deputies_response, request |-> NoRequest]
    ELSE IF deputies_response.env.status = "error"
    THEN [ret |-> deputies_response, request |-> NoRequest]
    ELSE IF deputies_response.env.results.isNone
            \/ deputies_response.env.results.val.t # "obj"
    THEN [ret |-> Faulted("AttributeError"), request |-> NoRequest]
    ELSE LET body == deputies_response.env.results.val
             deputies == IF body.hasDados THEN body.dados ELSE <<>>
         IN IF Len(deputies) = 0
            THEN [ret |-> APIResponse("error", None,
                             ErrorDetails(None, <<"No deputy found with name containing", name>>)),
                  request |-> NoRequest]
            ELSE IF Len(deputies) > 1
            THEN (IF \E k \in 1..Len(deputies) : ~deputies[k].hasNome \/ ~deputies[k].hasId
                  THEN [ret |-> Faulted("KeyError"), request |-> NoRequest]
                  ELSE [ret |-> APIResponse("error", None,
                                   ErrorDetails(None, <<"Multiple deputies found for", name,
                                                        Suggestions(deputies)>>)),
                        request |-> NoRequest])
            ELSE IF ~deputies[1].hasId
            THEN [ret |-> Faulted("KeyError"), request |-> NoRequest]
            ELSE expenses_call(PyInt(deputies[1].id), year, month)

\* date.today() and the day 365 days before it, as strftime renders them
TodayText == <<"today">>
OneYearAgoText == <<"today-365d">>

\* lines 283-310
get_bills_by_author(author_name, deputy_id, initial_date, end_date) ==
    IF ~Truthy(deputy_id) /\ ~Truthy(author_name)
    THEN [ret |-> APIResponse("error", None,
                     ErrorDetails(None, <<"You must provide either author_name or deputy_id">>)),
          request |-> NoRequest]
    ELSE LET p0 == IF Truthy(deputy_id)
                   THEN DictSet(EmptyDict, K_idDeputadoAutor, deputy_id)
                   ELSE DictSet(EmptyDict, K_autor, author_name)
             p1 == IF ~Truthy(initial_date) /\ ~Truthy(end_date)
                   THEN DictSet(DictSet(p0, K_dataInicio, PyStr(OneYearAgoText)),
                                K_dataFim, PyStr(TodayText))
                   ELSE LET q == IF Truthy(initial_date)
                                 THEN DictSet(p0, K_dataInicio, initial_date) ELSE p0
                        IN IF Truthy(end_date) THEN DictSet(q, K_dataFim, end_date) ELSE q
         IN call_endpoint_begin(<<"/","p","r","o","p","o","s","i","c","o","e","s">>, GET, p1)

(***************************************************************************)
(* main.py: list_endpoints, get_endpoint_schema.                           *)
(***************************************************************************)
list_endpoints(summary) == APIResponse("success", Some(summary), None)

get_endpoint_schema(mapping, path, method) ==
    LET key == MappingKey(upper(method), path)
    IN IF key \notin DOMAIN mapping
       THEN APIResponse("error", None, ErrorDetails(None, <<"Endpoint not found", method, path>>))
       ELSE APIResponse("success", Some(mapping[key]), None)

(***************************************************************************)
(* Inputs: interface descriptions, tool arguments, remote answers.         *)
(***************************************************************************)
K_id == <<"i","d">>
K_a == <<"a">>
K_b == <<"b">>

\* entries of a "parameters" list of the interface description
RawParams ==
    { [name |-> K_id, loc |-> "path", required |-> TRUE, wellFormed |-> TRUE],
      [name |-> K_id, loc |-> "path", required |-> FALSE, wellFormed |-> TRUE],
      [name |-> K_ano, loc |-> "query", required |-> TRUE, wellFormed |-> TRUE],
      [name |-> K_id, loc |-> "header", required |-> TRUE, wellFormed |-> TRUE],
      [name |-> K_id, loc |-> "path", required |-> TRUE, wellFormed |-> FALSE] }

SeqsUpTo(S, n) == UNION { [1..k -> S] : k \in 0..n }

DocPath == <<"/","d","e","p","u","t","a","d","o","s","/","{","i","d","}">>

Documents ==
    { [isNone |-> FALSE, hasPaths |-> FALSE, paths |-> <<>>],
      [isNone |-> FALSE, hasPaths |-> TRUE, paths |-> <<>>] }
    \cup
    { [isNone |-> FALSE, hasPaths |-> TRUE,
       paths |-> << [path |-> DocPath,
                     ops |-> << [method |-> m, description |-> "text", parameters |-> ps] >>] >>] :
        m \in {<<"g","e","t">>, <<"p","o","s","t">>}, ps \in SeqsUpTo(RawParams, MaxParams) }

LoadOutcomes ==
    { [kind |-> "ok", doc |-> d] : d \in Documents }
    \cup { [kind |-> f, doc |-> NoDocument] : f \in LoadFailures }

\* deputies of a lookup answer; an entry may lack "nome" or "id"
DeputyPool ==
    { [hasNome |-> TRUE, hasId |-> TRUE, nome |-> "Ana", id |-> 7],
      [hasNome |-> FALSE, hasId |-> TRUE, nome |-> "", id |-> 8],
      [hasNome |-> TRUE, hasId |-> FALSE, nome |-> "Bia", id |-> 0] }

JsonNull == [t |-> "null", hasDados |-> FALSE, dados |-> <<>>]
JsonList == [t |-> "list", hasDados |-> FALSE, dados |-> <<>>]
JsonObject(hasDados, dados) == [t |-> "obj", hasDados |-> hasDados, dados |-> dados]

JsonBodies ==
    {JsonNull, JsonList, JsonObject(FALSE, <<>>)}
    \cup { JsonObject(TRUE, ds) : ds \in SeqsUpTo(DeputyPool, MaxDeputies) }

\* what one HTTP request can end in
Outcomes ==
    { [kind |-> "transport", status_code |-> 0, body |-> JsonNull],
      [kind |-> "not_json", status_code |-> 200, body |-> JsonNull],
      [kind |-> "response", status_code |-> 400, body |-> JsonNull],
      [kind |-> "response", status_code |-> 404, body |-> JsonNull],
      [kind |-> "response", status_code |-> 500, body |-> JsonNull] }
    \cup { [kind |-> "response", status_code |-> 200, body |-> b] : b \in JsonBodies }

\* arguments of call_endpoint
PathValues == {PyNone, PyInt(0), PyInt(42), PyStr(<<>>), PyStr(<<"{","b","}">>)}
Dicts(keys, values) == UNION { [ks -> values] : ks \in SUBSET keys }
Merge(d1, d2) == [k \in (DOMAIN d1) \cup (DOMAIN d2) |-> IF k \in DOMAIN d1 THEN d1[k] ELSE d2[k]]

CallCases ==
    { [path |-> <<"/","d","e","p","u","t","a","d","o","s">>, params |-> q] : q \in Dicts({K_ano}, {PyInt(2023)}) }
    \cup { [path |-> <<"/","d","e","p","u","t","a","d","o","s","/","{","i","d","}","/","d","e","s","p","e","s","a","s">>, params |-> Merge(p, q)] :
             p \in Dicts({K_id}, PathValues), q \in Dicts({K_ano}, {PyInt(2023)}) }
    \cup { [path |-> <<"/","{","a","}","/","{","b","}">>, params |-> p] : p \in Dicts({K_a, K_b}, PathValues) }
    \cup { [path |-> <<"/","{","i","d","}","/","{","i","d","}">>, params |-> p] : p \in Dicts({K_id}, PathValues) }

Methods == {GET, <<"g","e","t">>, <<"G","e","t">>, POST, <<"p","o","s","t">>}

NameArgs == {PyNone, PyStr(<<>>), PyStr(<<"a","n","a">>)}
IdArgs == {PyNone, PyInt(0), PyInt(42)}
YearArgs == {PyNone, PyInt(0), PyInt(2023)}
MonthArgs == {PyNone, PyInt(5)}
DateArgs == {PyNone, PyStr(<<"2024-01-01">>)}

\* endpoints handed to get_tool_name
Segments == { <<"{","i","d","}">>, <<"v","o","t","o","s">>, <<"d","e","p","u","t","a","d","o","s">> }
NamePaths == { <<"/">> \o JoinWith(segs, <<"/">>) : segs \in SeqsUpTo(Segments, MaxSegs) }
NameMethods == {GET, POST, PUT, PATCH, DELETE, OPTIONS}

\* words handed to singularize: a short stem in front of an ending, and
\* words as they are written (capitals, accents, blanks, invariable words)
StemLetters == {"a", "i", "m", "-"}
Endings ==
    UNION { { SuffixRules[r][a][1] : a \in 1..Len(SuffixRules[r]) } : r \in 1..Len(SuffixRules) }
    \cup { <<>>, <<"s">>, <<"e","s">>, <<"r","e","s">>, <<"r">>, <<"e">> }
WrittenWords ==
    { <<" ","V","o","t","o","s"," ">>, <<"A","N","I","M","A","I","S">>, <<"p","r","o","p","o","s","i","c,","o~","e","s">>,
      <<"l","a","p","i","s">>, <<"O","n","i","b","u","s">>, <<"p","i","r","e","s">> }
Words ==
    { stem \o ending : stem \in SeqsUpTo(StemLetters, MaxStem), ending \in Endings }
    \cup WrittenWords

(***************************************************************************)
(* State.                                                                  *)
(***************************************************************************)
VARIABLES
    boot,               \* "start", "loaded", "ready", or "crashed" (import raised)
    spec,               \* main.py line 15
    load_log,           \* what load_openapi_spec logged: "success" or the failure
    endpoints,          \* main.py line 17
    endpoints_summary,  \* main.py line 19
    endpoints_mapping,  \* main.py line 27
    pc,                 \* "idle", "await_lookup", "await_call", "done"
    tool,               \* the tool being run
    args,               \* its arguments
    inflight,           \* the HTTP request awaited
    sent,               \* the HTTP requests issued by this invocation, in order
    answers,            \* what the remote service did to each of them
    deputies_response,  \* local of get_deputy_expenses
    ret,                \* how the invocation ended: an envelope or an exception
    derived             \* result of get_tool_name, or of singularize

vars == <<boot, spec, load_log, endpoints, endpoints_summary, endpoints_mapping,
          pc, tool, args, inflight, sent, answers, deputies_response, ret, derived>>

registry == <<boot, spec, load_log, endpoints, endpoints_summary, endpoints_mapping>>

NoArgs == [none |-> TRUE]

Init ==
    /\ boot = "start"
    /\ spec = NoDocument
    /\ load_log = ""
    /\ endpoints = <<>>
    /\ endpoints_summary = <<>>
    /\ endpoints_mapping = <<>>
    /\ pc = "idle"
    /\ tool = ""
    /\ args = NoArgs
    /\ inflight = NoRequest
    /\ sent = <<>>
    /\ answers = <<>>
    /\ deputies_response = Pending
    /\ ret = Pending
    /\ derived = NoName

(***************************************************************************)
(* Startup: main.py lines 15-30.                                           *)
(***************************************************************************)
LoadSpec ==
    /\ boot = "start"
    /\ \E outcome \in LoadOutcomes :
          /\ spec' = load_openapi_spec(outcome)
          /\ load_log' = IF outcome.kind = "ok" THEN "success" ELSE outcome.kind
    /\ boot' = "loaded"
    /\ UNCHANGED <<endpoints, endpoints_summary, endpoints_mapping,
                   pc, tool, args, inflight, sent, answers, deputies_response, ret, derived>>

ModuleInit ==
    /\ boot = "loaded"
    /\ LET r == get_endpoints(spec)
       IN IF r.raised
          THEN /\ boot' = "crashed"
               /\ UNCHANGED <<endpoints, endpoints_summary, endpoints_mapping>>
          ELSE /\ boot' = "ready"
               /\ endpoints' = r.endpoints
               /\ endpoints_summary' = Summaries(r.endpoints)
               /\ endpoints_mapping' = Mapping(r.endpoints)
    /\ UNCHANGED <<spec, load_log, pc, tool, args, inflight, sent, answers,
                   deputies_response, ret, derived>>

(***************************************************************************)
(* Tool invocations.                                                       *)
(***************************************************************************)
CanInvoke == boot = "ready" /\ pc = "idle"

\* a step of a tool that ran to its return, or to its next request
Proceed(step) ==
    IF step.ret.kind = "none"
    THEN /\ inflight' = step.request
         /\ sent' = Append(sent, step.request)
         /\ ret' = Pending
    ELSE /\ inflight' = NoRequest
         /\ sent' = sent
         /\ ret' = step.ret

ListEndpoints ==
    /\ CanInvoke
    /\ tool' = "list_endpoints"
    /\ args' = NoArgs
    /\ ret' = list_endpoints(endpoints_summary)
    /\ pc' = "done"
    /\ UNCHANGED <<registry, inflight, sent, answers, deputies_response, derived>>

GetEndpointSchema ==
    /\ CanInvoke
    /\ \E path \in {DocPath, <<"/","d","e","p","u","t","a","d","o","s">>}, method \in Methods :
          /\ tool' = "get_endpoint_schema"
          /\ args' = [path |-> path, method |-> method]
          /\ ret' = get_endpoint_schema(endpoints_mapping, path, method)
    /\ pc' = "done"
    /\ UNCHANGED <<registry, inflight, sent, answers, deputies_response, derived>>

CallEndpoint ==
    /\ CanInvoke
    /\ \E c \in CallCases, method \in Methods :
          LET step == call_endpoint_begin(c.path, method, c.params)
          IN /\ tool' = "call_endpoint"
             /\ args' = [path |-> c.path, method |-> method, params |-> c.params]
             /\ Proceed(step)
             /\ pc' = IF step.ret.kind = "none" THEN "await_call" ELSE "done"
    /\ UNCHANGED <<registry, answers, deputies_response, derived>>

GetDeputyByName ==
    /\ CanInvoke
    /\ \E name \in NameArgs \ {PyNone} :
          LET step == get_deputy_by_name(name)
          IN /\ tool' = "get_deputy_by_name"
             /\ args' = [name |-> name]
             /\ Proceed(step)
             /\ pc' = IF step.ret.kind = "none" THEN "await_call" ELSE "done"
    /\ UNCHANGED <<registry, answers, deputies_response, derived>>

GetDeputyExpenses ==
    /\ CanInvoke
    /\ \E name \in NameArgs, id \in IdArgs, year \in YearArgs, month \in MonthArgs :
          LET step == get_deputy_expenses_begin(name, id, year, month)
          IN /\ tool' = "get_deputy_expenses"
             /\ args' = [name |-> name, id |-> id, year |-> year, month |-> month]
             /\ Proceed(step)
             /\ pc' = IF step.ret.kind # "none" THEN "done"
                      ELSE IF step.lookup THEN "await_lookup" ELSE "await_call"
    /\ UNCHANGED <<registry, answers, deputies_response, derived>>

GetBillsByAuthor ==
    /\ CanInvoke
    /\ \E author_name \in NameArgs, deputy_id \in IdArgs,
          initial_date \in DateArgs, end_date \in DateArgs :
          LET step == get_bills_by_author(author_name, deputy_id, initial_date, end_date)
          IN /\ tool' = "get_bills_by_author"
             /\ args' = [author_name |-> author_name, deputy_id |-> deputy_id,
                         initial_date |-> initial_date, end_date |-> end_date]
             /\ Proceed(step)
             /\ pc' = IF step.ret.kind = "none" THEN "await_call" ELSE "done"
    /\ UNCHANGED <<registry, answers, deputies_response, derived>>

\* the awaited request of the name lookup completes; get_deputy_expenses
\* goes on to its return or to the expenses request
LookupAnswered ==
    /\ pc = "await_lookup"
    /\ \E outcome \in Outcomes :
          LET resp == call_endpoint_end(inflight, outcome)
              step == get_deputy_expenses_resume(resp, args.name, args.year, args.month)
          IN /\ answers' = Append(answers, outcome)
             /\ deputies_response' = resp
             /\ Proceed(step)
             /\ pc' = IF step.ret.kind = "none" THEN "await_call" ELSE "done"
    /\ UNCHANGED <<registry, tool, args, derived>>

\* the awaited request of a call_endpoint whose envelope is the tool's result
CallAnswered ==
    /\ pc = "await_call"
    /\ \E outcome \in Outcomes :
          /\ answers' = Append(answers, outcome)
          /\ ret' = call_endpoint_end(inflight, outcome)
    /\ inflight' = NoRequest
    /\ pc' = "done"
    /\ UNCHANGED <<registry, tool, args, sent, deputies_response, derived>>

\* tools.py: create_tools derives the name of an endpoint
GetToolName ==
    /\ CanInvoke
    /\ \E path \in NamePaths, method \in NameMethods :
          /\ args' = [path |-> path, method |-> method]
          /\ derived' = get_tool_name([path |-> path, method |-> method])
    /\ tool' = "get_tool_name"
    /\ pc' = "done"
    /\ UNCHANGED <<registry, inflight, sent, answers, deputies_response, ret>>

\* utils.py: singularize applied to one word
Singularize ==
    /\ CanInvoke
    /\ \E word \in Words :
          /\ args' = [word |-> word]
          /\ derived' = Named(singularize(word))
    /\ tool' = "singularize"
    /\ pc' = "done"
    /\ UNCHANGED <<registry, inflight, sent, answers, deputies_response, ret>>

\* the result was handed back; the server waits for the next invocation
Return ==
    /\ pc = "done"
    /\ pc' = "idle"
    /\ tool' = ""
    /\ args' = NoArgs
    /\ inflight' = NoRequest
    /\ sent' = <<>>
    /\ answers' = <<>>
    /\ deputies_response' = Pending
    /\ ret' = Pending
    /\ derived' = NoName
    /\ UNCHANGED registry

Next ==
    \/ LoadSpec
    \/ ModuleInit
    \/ ListEndpoints
    \/ GetEndpointSchema
    \/ CallEndpoint
    \/ GetDeputyByName
    \/ GetDeputyExpenses
    \/ GetBillsByAuthor
    \/ LookupAnswered
    \/ CallAnswered
    \/ GetToolName
    \/ Singularize
    \/ Return

Spec == Init /\ [][Next]_vars

(***************************************************************************)
(* Properties.                                                             *)
(***************************************************************************)
IsEnvelope(r) == r.kind = "envelope"
IsErrorEnvelope(r) == r.kind = "envelope" /\ r.env.status = "error"
Ended == pc = "done"
LastAnswer == answers[Len(answers)]

EnvelopeWellFormed(env) ==
    /\ env.status \in {"success", "error"}
    /\ ~(env.results.isNone /\ env.error_details.isNone)
    /\ ~(~env.results.isNone /\ ~env.error_details.isNone)
    /\ (~env.results.isNone <=> env.status = "success")
    /\ (~env.error_details.isNone <=> env.status = "error")

\* C1: every envelope a tool returns (and the envelope the name lookup hands
\* to get_deputy_expenses) has exactly one of results / error_details set,
\* results iff status = success and error_details iff status = error.
C1_EnvelopeInvariant ==
    /\ IsEnvelope(ret) => EnvelopeWellFormed(ret.env)
    /\ IsEnvelope(deputies_response) => EnvelopeWellFormed(deputies_response.env)

\* a 2xx answer with a null JSON body came back as an error envelope
C1_Witness ==
    /\ tool = "call_endpoint"
    /\ Ended
    /\ Len(answers) = 1
    /\ LastAnswer.kind = "response" /\ LastAnswer.status_code = 200
    /\ LastAnswer.body.t = "null"
    /\ IsErrorEnvelope(ret)
    /\ ~ret.env.error_details.isNone

\* C2: no tool invocation ends by raising an exception.
C2_NoUnhandledFault == ret.kind # "raised"

\* C3: after a failed load of the interface description startup does not
\* crash, the endpoint set and the registry are empty, and list_endpoints
\* returns a success envelope with no endpoints.
C3_DegradesToEmpty ==
    load_log \in LoadFailures =>
        /\ spec.isNone
        /\ boot # "crashed"
        /\ boot = "ready" => (endpoints = <<>> /\ DOMAIN endpoints_mapping = {})
        /\ (tool = "list_endpoints" /\ Ended) =>
               (IsEnvelope(ret) /\ ret.env.status = "success" /\ ret.env.results.val = <<>>)

\* the request path the claim describes: one scan of the template, each
\* placeholder with a truthy value replaced by the text of that value
RECURSIVE ExpectedPath(_, _, _)
ExpectedPath(template, i, params) ==
    IF i > Len(template) THEN <<>>
    ELSE IF MatchEnd(template, i) > 0
            /\ SubSeq(template, i + 1, MatchEnd(template, i) - 1) \in DOMAIN params
            /\ Truthy(params[SubSeq(template, i + 1, MatchEnd(template, i) - 1)])
         THEN str(params[SubSeq(template, i + 1, MatchEnd(template, i) - 1)])
              \o ExpectedPath(template, MatchEnd(template, i) + 1, params)
         ELSE <<template[i]>> \o ExpectedPath(template, i + 1, params)

Placeholders(template) == { findall(template, 1)[k] : k \in 1..Len(findall(template, 1)) }

Substituted(template, params) ==
    { n \in Placeholders(template) : n \in DOMAIN params /\ Truthy(params[n]) }

ExpectedQuery(template, params) ==
    [k \in (DOMAIN params) \ Substituted(template, params) |-> params[k]]

HasBrace(text) == \E k \in 1..Len(text) : text[k] \in {"{", "}"}

IsGet(method) ==
    /\ Len(method) = 3
    /\ method[1] \in {"g", "G"} /\ method[2] \in {"e", "E"} /\ method[3] \in {"t", "T"}

GetCall == tool = "call_endpoint" /\ pc # "idle" /\ IsGet(args.method)

SubstitutionAsClaimed ==
    /\ Len(sent) = 1
    /\ sent[1].url = BASE_URL \o ExpectedPath(args.path, 1, args.params)
    /\ sent[1].params = ExpectedQuery(args.path, args.params)

C5_MethodGate ==
    (tool = "call_endpoint" /\ pc # "idle") =>
        IF IsGet(args.method)
        THEN Len(sent) = 1 /\ sent[1].method = GET
        ELSE /\ Ended
             /\ IsErrorEnvelope(ret)
             /\ ret.env.error_details.val.message = <<"Invalid method", args.method>>
             /\ sent = <<>>
             /\ inflight = NoRequest

C5_Witness ==
    /\ tool = "call_endpoint"
    /\ args.method = <<"p","o","s","t">>
    /\ Placeholders(args.path) # {}
    /\ Ended
    /\ IsErrorEnvelope(ret)
    /\ sent = <<>>

\* C6: call_endpoint, get_deputy_by_name and get_bills_by_author issue at
\* most one request, get_deputy_expenses at most two, the second only after
\* the first was answered, exactly one when an id is given and no second
\* one when the lookup failed; no request is sent twice.
C6_RequestBound ==
    /\ tool \in {"call_endpoint", "get_deputy_by_name", "get_bills_by_author"}
           => Len(sent) <= 1
    /\ tool \in {"list_endpoints", "get_endpoint_schema"} => Len(sent) = 0
    /\ tool = "get_deputy_expenses" => Len(sent) <= 2
    /\ Len(answers) <= Len(sent) /\ Len(sent) <= Len(answers) + 1
    /\ (inflight # NoRequest) <=> (Len(sent) = Len(answers) + 1)
    /\ (tool = "get_deputy_expenses" /\ args.id # PyNone) => Len(sent) = 1
    /\ (tool = "get_deputy_expenses" /\ IsErrorEnvelope(deputies_response)) => Len(sent) = 1
    /\ (Ended /\ Len(answers) > 0 /\ IsErrorEnvelope(ret)) => Len(sent) = Len(answers)
    /\ \A i, j \in 1..Len(sent) : i # j => sent[i] # sent[j]

\* lookup then expenses request, the second one failed and was not re-sent
C6_Witness ==
    /\ tool = "get_deputy_expenses"
    /\ Ended
    /\ Len(sent) = 2 /\ Len(answers) = 2
    /\ LastAnswer.kind = "transport"
    /\ IsErrorEnvelope(ret)

LookupDone ==
    /\ tool = "get_deputy_expenses"
    /\ args.id = PyNone
    /\ Truthy(args.name)
    /\ Len(answers) >= 1

\* the deputies of the lookup answer, when it was a 2xx JSON object
LookupIsObject ==
    /\ answers[1].kind = "response"
    /\ is_success(answers[1].status_code)
    /\ answers[1].body.t = "obj"
LookupDeputies == IF answers[1].body.hasDados THEN answers[1].body.dados ELSE <<>>

ExpensesQuery(year, month) ==
    [k \in (IF Truthy(year) THEN {K_ano} ELSE {}) \cup (IF Truthy(month) THEN {K_mes} ELSE {})
        |-> IF k = K_ano THEN year ELSE month]

ListsEveryCandidate(r, deputies) ==
    /\ IsErrorEnvelope(r)
    /\ Len(r.env.error_details.val.message) = 3
    /\ \A k \in 1..Len(deputies) :
          \E j \in 1..Len(r.env.error_details.val.message[3]) :
              r.env.error_details.val.message[3][j] = <<deputies[k].nome, deputies[k].id>>

\* C7: get_deputy_expenses with a name and no id sends the expenses request
\* only when the lookup returned exactly one deputy, to
\* /deputados/<id>/despesas with ano/mes from year/month; zero deputies give
\* an error envelope, two or more an error envelope listing every candidate,
\* an error envelope of the lookup is returned unchanged; no expenses
\* request in the error cases.
C7_ExpensesByName ==
    LookupDone =>
        /\ IsErrorEnvelope(deputies_response) => (ret = deputies_response /\ Len(sent) = 1)
        /\ Len(sent) = 2 => (LookupIsObject /\ Len(LookupDeputies) = 1)
        /\ LookupIsObject =>
              /\ Len(LookupDeputies) = 0 => (IsErrorEnvelope(ret) /\ Len(sent) = 1)
              /\ Len(LookupDeputies) >= 2 =>
                     (ListsEveryCandidate(ret, LookupDeputies) /\ Len(sent) = 1)
              /\ (Len(LookupDeputies) = 1 /\ LookupDeputies[1].hasId) =>
                     /\ Len(sent) = 2
                     /\ sent[2].method = GET
                     /\ sent[2].url = BASE_URL \o <<"/","d","e","p","u","t","a","d","o","s","/">>
                                        \o IntStr(LookupDeputies[1].id) \o <<"/","d","e","s","p","e","s","a","s">>
                     /\ sent[2].params = ExpensesQuery(args.year, args.month)

BillsCall == tool = "get_bills_by_author" /\ pc # "idle"

\* C8: get_bills_by_author returns an error envelope without any request
\* iff neither an author name nor a deputy id was given; with a deputy id
\* (any integer) it sends GET /proposicoes with idDeputadoAutor = that id,
\* otherwise with autor = the author name.
C8_BillsRequiresAuthor ==
    BillsCall =>
        /\ (sent = <<>>) <=> (args.deputy_id = PyNone /\ ~Truthy(args.author_name))
        /\ sent = <<>> => (Ended /\ IsErrorEnvelope(ret))
        /\ sent # <<>> =>
              /\ sent[1].method = GET
              /\ sent[1].url = BASE_URL \o <<"/","p","r","o","p","o","s","i","c","o","e","s">>
              /\ IF args.deputy_id # PyNone
                 THEN /\ K_idDeputadoAutor \in DOMAIN sent[1].params
                      /\ sent[1].params[K_idDeputadoAutor] = args.deputy_id
                 ELSE /\ K_autor \in DOMAIN sent[1].params
                      /\ sent[1].params[K_autor] = args.author_name

RequiredNames(endpoint) ==
    { endpoint.parameters[k].name :
        k \in { j \in 1..Len(endpoint.parameters) : endpoint.parameters[j].required } }

\* C9: every placeholder of a parsed endpoint's path is the name of one of
\* its parameters with required = true.
C9_PlaceholdersRequired ==
    boot = "ready" =>
        \A k \in 1..Len(endpoints) :
            Placeholders(endpoints[k].path) \subseteq RequiredNames(endpoints[k])

IsPlaceholder(part) ==
    /\ Len(part) >= 3
    /\ part[1] = "{" /\ part[Len(part)] = "}"
    /\ NoBrace(part, 2, Len(part) - 1)

\* a segment by 1-based position; no text where the path has no such segment
SegmentAt(parts, k) == IF k \in 1..Len(parts) THEN parts[k] ELSE <<>>

ClaimedPrefix(method, parts) ==
    IF method = GET
    THEN (IF IsPlaceholder(parts[Len(parts)]) THEN <<"g","e","t">> ELSE <<"l","i","s","t">>)
    ELSE IF method = POST THEN <<"c","r","e","a","t","e">>
    ELSE IF method \in {PUT, PATCH} THEN <<"u","p","d","a","t","e">>
    ELSE IF method = DELETE THEN <<"d","e","l","e","t","e">>
    ELSE <<>>

ClaimedName(method, parts) ==
    LET prefix == ClaimedPrefix(method, parts)
        n == Len(parts)
    IN IF IsPlaceholder(parts[n])
       THEN prefix \o <<"_">> \o singularize(SegmentAt(parts, n - 1)) \o <<"_","b","y","_">> \o Inner(parts[n])
       ELSE IF \E k \in 1..n : IsPlaceholder(parts[k])
       THEN LET i == CHOOSE k \in 1..n :
                        IsPlaceholder(parts[k]) /\ \A j \in 1..(k - 1) : ~IsPlaceholder(parts[j])
            IN prefix \o <<"_">> \o SegmentAt(parts, i + 1) \o <<"_","b","y","_">>
                   \o singularize(SegmentAt(parts, i - 1))
       ELSE prefix \o <<"_">> \o JoinWith(parts, <<"_">>)

\* C10: for every endpoint whose path has at least one segment,
\* get_tool_name returns the name built by the three rules, also when the
\* only or the first segment is a placeholder.
C10_ToolName ==
    (tool = "get_tool_name" /\ Ended /\ Len(SplitParts(args.path, <<>>)) >= 1) =>
        /\ ~derived.raised
        /\ derived.name = ClaimedName(args.method, SplitParts(args.path, <<>>))

SingularizeDone == tool = "singularize" /\ Ended /\ normalize(args.word) \notin INVARIABLE

MatchingRules(w) == { r \in 1..Len(SuffixRules) : RuleMatches(w, r) }

Overlaps == { <<5, 10>>, <<8, 9>>, <<8, 10>>, <<9, 10>> }

FirstRule(w) == CHOOSE r \in MatchingRules(w) : \A q \in MatchingRules(w) : r <= q

=============================================================================
